---- MODULE Spec2Model ----
(***************************************************************************)
(* Model of leetcode_sorter.py: the time-bounded cache file, the record    *)
(* normalizer (process_problems), the scoring function                     *)
(* (calculate_true_difficulty_score) and the ranking pipeline (main).      *)
(*                                                                         *)
(* Python floats are modelled as fixed-point integers in units of 1/FScale;*)
(* every float division is a floor division at that resolution and         *)
(* round(x, 2) is round-half-even to hundredths.                           *)
(***************************************************************************)
EXTENDS Integers, Sequences, FiniteSets, TLC

VARIABLES now, cacheExists, cacheMtime, cacheContent,
          pc, raw_problems_list, fetched_data,
          problems, max_id, max_subs, max_acs,
          scored_problems, sorted_problems, exported,
          steps, lastSave, startCache, abortCause

vars == <<now, cacheExists, cacheMtime, cacheContent,
          pc, raw_problems_list, fetched_data,
          problems, max_id, max_subs, max_acs,
          scored_problems, sorted_problems, exported,
          steps, lastSave, startCache, abortCause>>

cacheVars == <<cacheExists, cacheMtime, cacheContent>>

runVars == <<problems, max_id, max_subs, max_acs,
             scored_problems, sorted_problems, exported>>

----------------------------------------------------------------------------
(* Bounds of the model *)

MaxLen == 2          \* longest raw list handed to process_problems
MaxRankLen == 3      \* longest raw list in the ranking specification
MaxFetchLen == 2     \* longest list the API returns in the pipeline
MaxId == 2           \* largest frontend_question_id
MaxCount == 2        \* largest total_acs / total_submitted
MaxNow == 4          \* the clock stops advancing here
TicksPerDay == 2     \* clock ticks in 24*60*60 seconds

----------------------------------------------------------------------------
(* Configuration, lines 9-49 *)

CACHE_EXPIRY_DAYS == 1

DIFFICULTY_SCORE_BASE_MAP(d) ==
    CASE d = "Easy" -> 80
      [] d = "Medium" -> 200
      [] d = "Hard" -> 450
      [] OTHER -> 0

\* WEIGHTS with the sign of the popularity discount lost
WEIGHTS_positive_discount(name) ==
    CASE name = "acceptance_rate_impact" -> 300
      [] name = "low_total_accepted_penalty" -> 150
      [] name = "high_popularity_discount" -> 80
      [] name = "newness_premium" -> 70

WEIGHTS(name) ==
    CASE name = "acceptance_rate_impact" -> 300
      [] name = "low_total_accepted_penalty" -> 150
      [] name = "high_popularity_discount" -> -80
      [] name = "newness_premium" -> 70

DIFFICULTY_API_MAP(level) ==
    CASE level = 1 -> "Easy"
      [] level = 2 -> "Medium"
      [] level = 3 -> "Hard"
      [] OTHER -> "Unknown"

----------------------------------------------------------------------------
(* Python values *)

\* Optional value: None, or a list
None == [some |-> FALSE, val |-> <<>>]
Some(v) == [some |-> TRUE, val |-> v]
\* Python truthiness of "None or a list"
Truthy(o) == o.some /\ o.val # <<>>

\* JSON scalars found in a numeric field of a raw record
IntV(n) == [k |-> "int", n |-> n]
Missing == [k |-> "missing", n |-> 0]     \* key absent from the mapping
NonNum == [k |-> "str", n |-> 0]          \* a non-numeric string
MISSING_SLUG == "<missing>"               \* key absent (slug field)

\* dict.get(key, default) on a numeric field
dict_get(v, default) == IF v.k = "missing" THEN default ELSE v
\* int(x): raises ValueError on a non-numeric string
py_int(v) == [err |-> v.k # "int", n |-> v.n]

\* floats: fixed point in units of 1/FScale
FScale == 10000
\* a / b
FDiv(a, b) == (a * FScale) \div b
\* math.log1p(n) for n >= 0, in units of 1/FScale
Log1pTable == <<0, 6931, 10986, 13863, 16094, 17918, 19459, 20794, 21972>>
log1p(n) == Log1pTable[n + 1]
\* round(x, 2): result in hundredths, ties to even
round2(x) ==
    LET q == x \div (FScale \div 100)
        r == x % (FScale \div 100)
        half == (FScale \div 100) \div 2
    IN IF r > half \/ (r = half /\ q % 2 = 1) THEN q + 1 ELSE q

py_max(a, b) == IF a >= b THEN a ELSE b

----------------------------------------------------------------------------
(* Raw records *)

NoStat == [kind |-> "missing", frontend_question_id |-> Missing,
           question__title |-> "N/A", question__title_slug |-> MISSING_SLUG,
           total_acs |-> Missing, total_submitted |-> Missing]
\* a truthy value that is not a mapping (e.g. a string)
BadStat == [NoStat EXCEPT !.kind = "badtype"]
StatOf(id, slug, acs, subs) ==
    [kind |-> "ok", frontend_question_id |-> id, question__title |-> "T",
     question__title_slug |-> slug, total_acs |-> acs, total_submitted |-> subs]

NoDifficulty == [kind |-> "missing", level |-> Missing]
BadDifficulty == [kind |-> "badtype", level |-> Missing]
DifficultyOf(level) == [kind |-> "ok", level |-> level]

RawOf(stat, difficulty, paid) ==
    [kind |-> "mapping", stat |-> stat, difficulty |-> difficulty, paid_only |-> paid]
\* an element of the list that is not a mapping (a string, a number, null)
NotAMapping == [kind |-> "other", stat |-> NoStat, difficulty |-> NoDifficulty,
                paid_only |-> FALSE]

----------------------------------------------------------------------------
(* process_problems, lines 95-151 *)

NoProblem == [id |-> 0, title |-> "N/A", slug |-> "N/A", difficulty |-> "Unknown",
              totalAccepted |-> 0, totalSubmissions |-> 0, acceptanceRate |-> 0,
              url |-> <<"https://leetcode.com/problems/", "N/A", "/">>]

Skip == [act |-> "skip", item |-> NoProblem]
Raise == [act |-> "raise", item |-> NoProblem]
Keep(p) == [act |-> "keep", item |-> p]

\* One iteration of the loop, lines 108-148.  "raise" is an exception that no
\* handler of process_problems catches (AttributeError on a .get of a value
\* that is not a mapping); a TypeError or ValueError is caught: "skip".
process_one(prob_data) ==
    IF prob_data.kind # "mapping" THEN Raise                       \* line 109
    ELSE
    LET stat == prob_data.stat
        difficulty_info == prob_data.difficulty
    IN
    IF stat.kind = "missing" \/ difficulty_info.kind = "missing" THEN Skip
    ELSE IF prob_data.paid_only THEN Skip
    ELSE IF stat.kind # "ok" THEN Raise                            \* line 116
    ELSE
    LET frontend_id == py_int(dict_get(stat.frontend_question_id, IntV(0)))
        title == stat.question__title
        slug == IF stat.question__title_slug = MISSING_SLUG
                THEN "N/A" ELSE stat.question__title_slug
        total_accepted_val == py_int(dict_get(stat.total_acs, IntV(0)))
        total_submitted_val == py_int(dict_get(stat.total_submitted, IntV(0)))
    IN
    IF frontend_id.err \/ total_accepted_val.err \/ total_submitted_val.err THEN Skip
    ELSE IF difficulty_info.kind # "ok" THEN Raise                 \* line 121
    ELSE
    LET difficulty_level == py_int(dict_get(difficulty_info.level, IntV(0)))
    IN
    IF difficulty_level.err THEN Skip
    ELSE IF slug = "N/A" \/ frontend_id.n = 0 \/ difficulty_level.n = 0 THEN Skip
    ELSE
    LET acceptance_rate == IF total_submitted_val.n > 0
                           THEN FDiv(total_accepted_val.n, total_submitted_val.n)
                           ELSE 0
        difficulty_str == DIFFICULTY_API_MAP(difficulty_level.n)
    IN
    IF difficulty_str = "Unknown" THEN Skip
    ELSE Keep([id |-> frontend_id.n,
               title |-> title,
               slug |-> slug,
               difficulty |-> difficulty_str,
               totalAccepted |-> total_accepted_val.n,
               totalSubmissions |-> total_submitted_val.n,
               acceptanceRate |-> acceptance_rate,
               url |-> <<"https://leetcode.com/problems/", slug, "/">>])

RECURSIVE process_loop(_, _, _)
process_loop(raw, i, acc) ==
    IF i > Len(raw) THEN acc
    ELSE
    LET r == process_one(raw[i]) IN
    CASE r.act = "raise" -> [acc EXCEPT !.raised = TRUE]
      [] r.act = "skip" -> process_loop(raw, i + 1, acc)
      [] r.act = "keep" ->
            process_loop(raw, i + 1,
                [raised |-> FALSE,
                 processed |-> Append(acc.processed, r.item),
                 max_frontend_id |-> py_max(acc.max_frontend_id, r.item.id),
                 max_submissions |-> py_max(acc.max_submissions, r.item.totalSubmissions),
                 max_accepted |-> py_max(acc.max_accepted, r.item.totalAccepted)])

process_problems(raw) ==
    LET zero == [raised |-> FALSE, processed |-> <<>>, max_frontend_id |-> 0,
                 max_submissions |-> 0, max_accepted |-> 0]
    IN
    IF raw = <<>> THEN zero                                        \* lines 101-102
    ELSE
    LET r == process_loop(raw, 1, zero) IN
    IF r.raised THEN r
    ELSE [r EXCEPT !.max_frontend_id = py_max(1, r.max_frontend_id),
                   !.max_submissions = py_max(1, r.max_submissions),
                   !.max_accepted = py_max(1, r.max_accepted)]

----------------------------------------------------------------------------
(* calculate_true_difficulty_score, lines 153-189 *)

\* the value stored in problem['trueDifficultyScore'], in hundredths
true_difficulty_score(problem, max_frontend_id, max_submissions_log, max_accepted_log) ==
    LET base == DIFFICULTY_SCORE_BASE_MAP(problem.difficulty) * FScale
        acceptance_factor == FScale - problem.acceptanceRate
        s2 == base + acceptance_factor * WEIGHTS("acceptance_rate_impact")
        s3 == IF problem.totalAccepted >= 0 /\ max_accepted_log > 0
              THEN LET log_norm_accepted ==
                           FDiv(log1p(problem.totalAccepted), max_accepted_log)
                       low_accepted_factor == FScale - log_norm_accepted
                   IN s2 + low_accepted_factor * WEIGHTS("low_total_accepted_penalty")
              ELSE s2
        s4 == IF problem.totalSubmissions > 0 /\ max_submissions_log > 0
              THEN LET log_norm_submissions ==
                           FDiv(log1p(problem.totalSubmissions), max_submissions_log)
                   IN s3 + log_norm_submissions * WEIGHTS("high_popularity_discount")
              ELSE s3
        s5 == IF max_frontend_id > 0
              THEN LET norm_id == FDiv(problem.id, max_frontend_id)
                   IN s4 + norm_id * WEIGHTS("newness_premium")
              ELSE s4
    IN round2(s5)

calculate_true_difficulty_score(problem, max_frontend_id, max_submissions_log, max_accepted_log) ==
    [id |-> problem.id, title |-> problem.title, slug |-> problem.slug,
     difficulty |-> problem.difficulty,
     totalAccepted |-> problem.totalAccepted,
     totalSubmissions |-> problem.totalSubmissions,
     acceptanceRate |-> problem.acceptanceRate,
     url |-> problem.url,
     trueDifficultyScore |->
         true_difficulty_score(problem, max_frontend_id, max_submissions_log,
                               max_accepted_log)]

----------------------------------------------------------------------------
(* sorted(scored_problems, key=score, reverse=True), line 234 *)

\* position at which x goes into the descending sequence s: behind every
\* element whose key is at least x's
\* insert_pos going in front of the elements of equal key
RECURSIVE insert_pos_before_equal(_, _, _)
insert_pos_before_equal(s, x, i) ==
    IF i > Len(s) THEN i
    ELSE IF s[i].trueDifficultyScore > x.trueDifficultyScore
         THEN insert_pos_before_equal(s, x, i + 1)
         ELSE i

RECURSIVE insert_pos(_, _, _)
insert_pos(s, x, i) ==
    IF i > Len(s) THEN i
    ELSE IF s[i].trueDifficultyScore >= x.trueDifficultyScore
         THEN insert_pos(s, x, i + 1)
         ELSE i

insert_at(s, x, i) == SubSeq(s, 1, i - 1) \o <<x>> \o SubSeq(s, i, Len(s))

RECURSIVE sort_from(_, _, _)
sort_from(s, i, acc) ==
    IF i > Len(s) THEN acc
    ELSE sort_from(s, i + 1, insert_at(acc, s[i], insert_pos(acc, s[i], 1)))

sorted_by_score_reverse(s) == sort_from(s, 1, <<>>)

----------------------------------------------------------------------------
(* json.dump / json.load of the cache file, lines 83-84 and 92-93 *)

\* The file holds the chunks json.dump has written so far.
Tok(t, v) == [t |-> t, v |-> v]
Punct(t) == Tok(t, NotAMapping)

RECURSIVE json_items(_, _)
json_items(lst, i) ==
    IF i > Len(lst) THEN <<>>
    ELSE (IF i > 1 THEN <<Punct(",")>> ELSE <<>>)
         \o <<Tok("item", lst[i])>> \o json_items(lst, i + 1)

\* the chunks of the complete document
json_dump(lst) == <<Punct("[")>> \o json_items(lst, 1) \o <<Punct("]")>>

\* the elements of a document body (what stands between the brackets);
\* ok is FALSE where the body is not item (, item)*
RECURSIVE json_body(_, _, _)
json_body(body, i, acc) ==
    IF i > Len(body) THEN [ok |-> TRUE, val |-> acc]
    ELSE IF i % 2 = 1
         THEN IF body[i].t = "item"
              THEN json_body(body, i + 1, Append(acc, body[i].v))
              ELSE [ok |-> FALSE, val |-> <<>>]
         ELSE IF body[i].t = "," /\ i < Len(body)
              THEN json_body(body, i + 1, acc)
              ELSE [ok |-> FALSE, val |-> <<>>]

\* ok is FALSE where json.load raises JSONDecodeError
json_load(content) ==
    IF Len(content) >= 2 /\ content[1].t = "[" /\ content[Len(content)].t = "]"
    THEN json_body(SubSeq(content, 2, Len(content) - 1), 1, <<>>)
    ELSE [ok |-> FALSE, val |-> <<>>]

----------------------------------------------------------------------------
(* The cache, lines 76-93 *)

CacheExpiry == CACHE_EXPIRY_DAYS * TicksPerDay

\* load_problems_from_cache with the expiry test off by one (<= for <)
load_problems_from_cache_inclusive(exists, mtime, content, time, readable) ==
    IF exists /\ (time - mtime) <= CacheExpiry
    THEN IF readable /\ json_load(content).ok
         THEN [raised |-> FALSE, result |-> Some(json_load(content).val)]
         ELSE [raised |-> TRUE, result |-> None]
    ELSE [raised |-> FALSE, result |-> None]

\* readable: whether open() and read() of the file succeed
load_problems_from_cache(exists, mtime, content, time, readable) ==
    IF exists
    THEN IF (time - mtime) < CacheExpiry
         THEN IF readable /\ json_load(content).ok
              THEN [raised |-> FALSE, result |-> Some(json_load(content).val)]
              ELSE [raised |-> TRUE, result |-> None]
         ELSE [raised |-> FALSE, result |-> None]
    ELSE [raised |-> FALSE, result |-> None]

\* How a call of save_problems_to_cache can end
SaveOutcomes == {"returned", "open_failed", "write_failed", "killed"}

\* save_problems_to_cache: the file after the call.  open(..., 'w') truncates
\* the file, json.dump then writes chunk by chunk; written is the number of
\* chunks on the medium when a failing call ends.
save_problems_to_cache(lst, outcome, written, old, time) ==
    CASE outcome = "returned" ->
            [exists |-> TRUE, mtime |-> time, content |-> json_dump(lst)]
      [] outcome = "open_failed" -> old
      [] OTHER ->
            [exists |-> TRUE, mtime |-> time,
             content |-> SubSeq(json_dump(lst), 1, written)]

CacheFile == [exists |-> cacheExists, mtime |-> cacheMtime, content |-> cacheContent]

----------------------------------------------------------------------------
(* fetch_problems_from_api_rest, lines 53-74 *)

fetch_problems_from_api_rest(response) ==
    CASE response.kind = "ok" -> Some(response.stat_status_pairs)
      [] response.kind = "no_stat_status_pairs" -> None       \* lines 67-68
      [] response.kind = "request_exception" -> None          \* lines 69-71
      [] response.kind = "json_decode_error" -> None          \* lines 72-74

\* lines 200-205 with the else branch falling through to the save
after_fetch_fall_through(fetched) == "save"

\* lines 200-205: where main goes after the fetch
after_fetch(fetched) == IF Truthy(fetched) THEN "save" ELSE "exit"

----------------------------------------------------------------------------
(* Inputs *)

SeqsUpTo(S, n) == UNION {[1..k -> S] : k \in 0..n}

IdVals == {Missing, NonNum} \cup {IntV(n) : n \in -1..MaxId}
SlugVals == {MISSING_SLUG, "", "a", "b"}
CountVals == {NonNum} \cup {IntV(n) : n \in -1..MaxCount}
LevelVals == {Missing, NonNum} \cup {IntV(n) : n \in 0..4}

\* well-typed records of free problems
ValidItems ==
    {RawOf(StatOf(IntV(i), s, IntV(c[1]), IntV(c[2])), DifficultyOf(IntV(l)), FALSE) :
        i \in 1..MaxId, s \in {"a", "b"}, l \in 1..3,
        c \in {<<0, 0>>, <<1, MaxCount>>}}

Template == RawOf(StatOf(IntV(1), "a", IntV(1), IntV(1)), DifficultyOf(IntV(1)), FALSE)

\* the template with one part replaced by each value its JSON can hold
Variants ==
    {NotAMapping}
    \cup {[Template EXCEPT !.stat = x] : x \in {NoStat, BadStat}}
    \cup {[Template EXCEPT !.difficulty = x] : x \in {NoDifficulty, BadDifficulty}}
    \cup {[Template EXCEPT !.paid_only = TRUE]}
    \cup {[Template EXCEPT !.stat.frontend_question_id = x] : x \in IdVals}
    \cup {[Template EXCEPT !.stat.question__title_slug = x] : x \in SlugVals}
    \cup {[Template EXCEPT !.stat.total_acs = x] : x \in CountVals}
    \cup {[Template EXCEPT !.stat.total_submitted = x] : x \in CountVals}
    \cup {[Template EXCEPT !.difficulty.level = x] : x \in LevelVals}
    \cup {[Template EXCEPT !.stat.frontend_question_id = NonNum,
                           !.difficulty = BadDifficulty],
          [Template EXCEPT !.stat = BadStat, !.paid_only = TRUE],
          [Template EXCEPT !.stat.total_acs = IntV(MaxCount),
                           !.stat.question__title_slug = "b"]}

RawItems == ValidItems \cup Variants

\* what the API returns in the pipeline
FetchItems ==
    {RawOf(StatOf(IntV(1), "a", IntV(1), IntV(MaxCount)), DifficultyOf(IntV(1)), FALSE),
     RawOf(StatOf(IntV(MaxId), "b", IntV(0), IntV(1)), DifficultyOf(IntV(3)), FALSE),
     RawOf(StatOf(IntV(MaxId), "c", IntV(0), IntV(0)), DifficultyOf(IntV(2)), TRUE)}

Responses ==
    {[kind |-> k, stat_status_pairs |-> <<>>] :
        k \in {"no_stat_status_pairs", "request_exception", "json_decode_error"}}
    \cup {[kind |-> "ok", stat_status_pairs |-> l] : l \in SeqsUpTo(FetchItems, MaxFetchLen)}

----------------------------------------------------------------------------
(* main, lines 192-271 *)

NoRun ==
    /\ fetched_data = None
    /\ problems = <<>>
    /\ max_id = 0
    /\ max_subs = 0
    /\ max_acs = 0
    /\ scored_problems = <<>>
    /\ sorted_problems = <<>>
    /\ exported = <<>>
    /\ steps = {}
    /\ abortCause = "none"

Init ==
    /\ now = 0
    /\ cacheExists = FALSE
    /\ cacheMtime = 0
    /\ cacheContent = <<>>
    /\ lastSave = None
    /\ startCache = [exists |-> FALSE, mtime |-> 0, content |-> <<>>]
    /\ pc = "start"
    /\ raw_problems_list = None
    /\ NoRun

\* the clock advances between runs
Tick ==
    /\ pc = "start"
    /\ now < MaxNow
    /\ now' = now + 1
    /\ UNCHANGED <<cacheVars, pc, raw_problems_list, fetched_data, runVars,
                   steps, lastSave, startCache, abortCause>>

\* line 197, and the test of line 198
Load ==
    /\ pc = "start"
    /\ \E readable \in BOOLEAN :
         LET r == load_problems_from_cache(cacheExists, cacheMtime, cacheContent,
                                           now, readable)
         IN /\ raw_problems_list' = r.result
            /\ pc' = IF r.raised THEN "aborted"
                     ELSE IF Truthy(r.result) THEN "process" ELSE "fetch"
            /\ abortCause' = IF r.raised THEN "cache_read" ELSE abortCause
    /\ steps' = steps \cup {"load"}
    /\ UNCHANGED <<now, cacheVars, fetched_data, runVars, lastSave, startCache>>

\* lines 199-205
Fetch ==
    /\ pc = "fetch"
    /\ \E response \in Responses :
         /\ fetched_data' = fetch_problems_from_api_rest(response)
         /\ pc' = after_fetch(fetched_data')
    /\ steps' = steps \cup {"fetch"}
    /\ UNCHANGED <<now, cacheVars, raw_problems_list, runVars, lastSave,
                   startCache, abortCause>>

\* lines 201-202, then the test of line 207
Save ==
    /\ pc = "save"
    /\ \E outcome \in SaveOutcomes, written \in 0..Len(json_dump(fetched_data.val)) - 1 :
         LET f == save_problems_to_cache(fetched_data.val, outcome, written,
                                         CacheFile, now)
         IN /\ cacheExists' = f.exists
            /\ cacheMtime' = f.mtime
            /\ cacheContent' = f.content
            /\ lastSave' = IF outcome = "returned" THEN fetched_data ELSE lastSave
            /\ raw_problems_list' =
                   IF outcome = "returned" THEN fetched_data ELSE raw_problems_list
            /\ pc' = CASE outcome = "returned" ->
                             IF Truthy(fetched_data) THEN "process" ELSE "exit"
                        [] outcome = "killed" -> "killed"
                        [] OTHER -> "aborted"
            /\ abortCause' = IF outcome \in {"open_failed", "write_failed"}
                             THEN "cache_write" ELSE abortCause
    /\ steps' = steps \cup {"save"}
    /\ UNCHANGED <<now, fetched_data, runVars, startCache>>

\* lines 211-216
Process ==
    /\ pc = "process"
    /\ LET r == process_problems(raw_problems_list.val)
       IN IF r.raised
          THEN /\ pc' = "aborted"
               /\ abortCause' = "record"
               /\ UNCHANGED <<problems, max_id, max_subs, max_acs>>
          ELSE /\ problems' = r.processed
               /\ max_id' = r.max_frontend_id
               /\ max_subs' = r.max_submissions
               /\ max_acs' = r.max_accepted
               /\ pc' = IF r.processed = <<>> THEN "exit" ELSE "score"
               /\ UNCHANGED abortCause
    /\ steps' = steps \cup {"normalize"}
    /\ UNCHANGED <<now, cacheVars, raw_problems_list, fetched_data,
                   scored_problems, sorted_problems, exported, lastSave, startCache>>

\* lines 221-231; the dicts of problems are updated in place
ScoreAll ==
    /\ pc = "score"
    /\ LET max_submissions_log_val == IF max_subs > 0 THEN log1p(max_subs) ELSE FScale
           max_accepted_log_val == IF max_acs > 0 THEN log1p(max_acs) ELSE FScale
           scored == [i \in DOMAIN problems |->
                        calculate_true_difficulty_score(problems[i], max_id,
                            max_submissions_log_val, max_accepted_log_val)]
       IN /\ scored_problems' = scored
          /\ problems' = scored
    /\ pc' = "sort"
    /\ steps' = steps \cup {"score"}
    /\ UNCHANGED <<now, cacheVars, raw_problems_list, fetched_data, max_id, max_subs,
                   max_acs, sorted_problems, exported, lastSave, startCache, abortCause>>

\* line 234
Sort ==
    /\ pc = "sort"
    /\ sorted_problems' = sorted_by_score_reverse(scored_problems)
    /\ pc' = "output"
    /\ steps' = steps \cup {"sort"}
    /\ UNCHANGED <<now, cacheVars, raw_problems_list, fetched_data, problems, max_id,
                   max_subs, max_acs, scored_problems, exported, lastSave, startCache,
                   abortCause>>

\* one row of the CSV, lines 250-264; acceptanceRate*100 with two decimals
\* is the rate in units of 1/FScale
csv_row(p) ==
    <<p.id, p.title, p.difficulty, <<p.acceptanceRate, "%">>, p.totalAccepted,
      p.totalSubmissions, p.trueDifficultyScore, p.url>>

\* lines 237-271; an IOError of the export is caught and ends the export
Output ==
    /\ pc = "output"
    /\ \E rows \in 0..Len(sorted_problems) :
         exported' = [i \in 1..rows |-> csv_row(sorted_problems[i])]
    /\ pc' = "done"
    /\ steps' = steps \cup {"export"}
    /\ UNCHANGED <<now, cacheVars, raw_problems_list, fetched_data, problems, max_id,
                   max_subs, max_acs, scored_problems, sorted_problems, lastSave,
                   startCache, abortCause>>

\* the program is started again
Restart ==
    /\ pc \in {"exit", "done", "aborted", "killed"}
    /\ pc' = "start"
    /\ raw_problems_list' = None
    /\ fetched_data' = None
    /\ problems' = <<>>
    /\ max_id' = 0
    /\ max_subs' = 0
    /\ max_acs' = 0
    /\ scored_problems' = <<>>
    /\ sorted_problems' = <<>>
    /\ exported' = <<>>
    /\ steps' = {}
    /\ abortCause' = "none"
    /\ startCache' = CacheFile
    /\ UNCHANGED <<now, cacheVars, lastSave>>

Next ==
    \/ Tick
    \/ Load
    \/ Fetch
    \/ Save
    \/ Process
    \/ ScoreAll
    \/ Sort
    \/ Output
    \/ Restart

Spec == Init /\ [][Next]_vars

----------------------------------------------------------------------------
(* process_problems and the ranking applied to every bounded input *)

NoCache ==
    /\ now = 0
    /\ cacheExists = FALSE
    /\ cacheMtime = 0
    /\ cacheContent = <<>>
    /\ lastSave = None
    /\ startCache = [exists |-> FALSE, mtime |-> 0, content |-> <<>>]

NextBatch ==
    \/ Process
    \/ ScoreAll
    \/ Sort
    \/ Output

\* any list of raw records, well-formed or not
InitNormalize ==
    /\ NoCache
    /\ NoRun
    /\ pc = "process"
    /\ raw_problems_list \in {Some(l) : l \in SeqsUpTo(RawItems, MaxLen)}

SpecNormalize == InitNormalize /\ [][NextBatch]_vars

\* free, well-typed records and one paid record
RankItems ==
    {RawOf(StatOf(IntV(i), s, IntV(1), IntV(MaxCount)), DifficultyOf(IntV(l)), FALSE) :
        i \in {1, MaxId}, s \in {"a", "b"}, l \in 1..3}
    \cup {[Template EXCEPT !.paid_only = TRUE]}

InitRank ==
    /\ NoCache
    /\ NoRun
    /\ pc = "process"
    /\ raw_problems_list \in {Some(l) : l \in SeqsUpTo(RankItems, MaxRankLen)}

SpecRank == InitRank /\ [][NextBatch]_vars

----------------------------------------------------------------------------
(* calculate_true_difficulty_score applied to pairs of items *)

ScoreItem(i, d, a, sub, rate) ==
    [id |-> i, title |-> "T", slug |-> "a", difficulty |-> d,
     totalAccepted |-> a, totalSubmissions |-> sub, acceptanceRate |-> rate,
     url |-> <<"https://leetcode.com/problems/", "a", "/">>]

RateVals == {0, FScale \div 3, FScale}

ScoreItems ==
    {ScoreItem(i, d, a, sub, rate) :
        i \in 1..MaxId, d \in {"Easy", "Hard"}, a \in {0, MaxCount},
        sub \in -1..MaxCount, rate \in RateVals}

\* p with one of acceptanceRate, totalSubmissions, id changed
OneFieldChanged(p) ==
    {[p EXCEPT !.acceptanceRate = r] : r \in RateVals \ {p.acceptanceRate}}
    \cup {[p EXCEPT !.totalSubmissions = x] : x \in (-1..MaxCount) \ {p.totalSubmissions}}
    \cup {[p EXCEPT !.id = x] : x \in (1..MaxId) \ {p.id}}

InitScore ==
    /\ NoCache
    /\ raw_problems_list = None
    /\ fetched_data = None
    /\ scored_problems = <<>>
    /\ sorted_problems = <<>>
    /\ exported = <<>>
    /\ steps = {}
    /\ abortCause = "none"
    /\ pc = "score"
    /\ \E p \in ScoreItems : \E v \in OneFieldChanged(p) : problems = <<p, v>>
    /\ max_id \in {0, MaxId}
    /\ max_subs \in 0..MaxCount
    /\ max_acs \in {0, MaxCount}

NextScore ==
    \/ ScoreAll
    \/ Sort
    \/ Output

SpecScore == InitScore /\ [][NextScore]_vars

----------------------------------------------------------------------------
(* Properties *)

Range(s) == {s[i] : i \in DOMAIN s}
Count(s, x) == Cardinality({i \in DOMAIN s : s[i] = x})
WithScore(s, v) == LET hit(x) == x.trueDifficultyScore = v IN SelectSeq(s, hit)
Unscored(p) ==
    [id |-> p.id, title |-> p.title, slug |-> p.slug, difficulty |-> p.difficulty,
     totalAccepted |-> p.totalAccepted, totalSubmissions |-> p.totalSubmissions,
     acceptanceRate |-> p.acceptanceRate, url |-> p.url]
Fresh == cacheExists /\ (now - cacheMtime) < CACHE_EXPIRY_DAYS * TicksPerDay
Normalized == "normalize" \in steps /\ abortCause = "none"

\* C1: a load returns a payload only when a cache entry exists and
\* now - writtenAt < expiryWindow; with no entry or an entry of age >= the
\* window it returns absent; and a payload it returns is the payload of the
\* most recent save.
C1_LoadContract ==
    [][(pc = "start" /\ pc' # "start") =>
          /\ (~Fresh => raw_problems_list' = None /\ pc' = "fetch")
          /\ (raw_problems_list'.some =>
                 Fresh /\ lastSave.some /\ raw_problems_list' = lastSave)]_vars

\* C1 witness: a load has returned the saved payload from an entry that has
\* aged but not expired.
C1_Witness ==
    /\ pc = "process"
    /\ steps = {"load"}
    /\ raw_problems_list = lastSave
    /\ now > cacheMtime

\* C2: when the process is killed during a save, the cache file holds a
\* complete entry: the one from before the save, or the new one.
C2_SaveIsAtomic ==
    pc = "killed" =>
        \/ CacheFile = startCache
        \/ /\ json_load(cacheContent).ok
           /\ json_load(cacheContent).val = fetched_data.val

\* C3: a failed read or write of the cache never aborts the run.
C3_CacheFailureNotFatal ==
    ~(pc = "aborted" /\ abortCause \in {"cache_read", "cache_write"})

\* C4: once the load has returned absent and the fetch has failed, the run is
\* over: nothing but the load and the fetch has happened in it, nothing was
\* computed or exported, and the cache entry is the one the run started with.
C4_NoDataStopsRun ==
    ("fetch" \in steps /\ ~fetched_data.some) =>
        /\ pc = "exit"
        /\ steps = {"load", "fetch"}
        /\ CacheFile = startCache
        /\ problems = <<>> /\ scored_problems = <<>>
        /\ sorted_problems = <<>> /\ exported = <<>>

\* C4 witness: the fetch has failed in a run that found an expired entry.
C4_Witness ==
    /\ "fetch" \in steps
    /\ ~fetched_data.some
    /\ cacheExists
    /\ ~Fresh

\* C5: the three maxima process_problems returns are >= 1 for every input,
\* and they are (1,1,1) when no item is returned.
C5_MaximaAtLeastOne ==
    Normalized =>
        /\ max_id >= 1 /\ max_subs >= 1 /\ max_acs >= 1
        /\ (problems = <<>> => <<max_id, max_subs, max_acs>> = <<1, 1, 1>>)

\* a raw record the filter of C6 lets through
Eligible(r) ==
    /\ r.kind = "mapping"
    /\ r.stat.kind = "ok"
    /\ r.difficulty.kind = "ok"
    /\ ~r.paid_only
    /\ r.stat.frontend_question_id.k = "int"
    /\ r.stat.frontend_question_id.n > 0
    /\ r.stat.question__title_slug \notin {MISSING_SLUG, ""}
    /\ r.difficulty.level.k = "int"
    /\ r.difficulty.level.n \in 1..3

\* C6: every item process_problems returns comes from a record that is not
\* paid and has a positive id, a present, non-empty slug and a known tier.
C6_OnlyEligibleKept ==
    Normalized =>
        \A i \in DOMAIN problems :
            \E k \in DOMAIN raw_problems_list.val :
                /\ Eligible(raw_problems_list.val[k])
                /\ raw_problems_list.val[k].stat.frontend_question_id.n = problems[i].id
                /\ raw_problems_list.val[k].stat.question__title_slug = problems[i].slug

\* C7: acceptanceRate of every item lies in [0,1] and is 0 when
\* totalSubmissions is 0.
C7_RateInUnitInterval ==
    Normalized =>
        \A i \in DOMAIN problems :
            /\ problems[i].acceptanceRate >= 0
            /\ problems[i].acceptanceRate <= FScale
            /\ (problems[i].totalSubmissions = 0 => problems[i].acceptanceRate = 0)

\* C8: the ranked sequence is a permutation of the scored, normalized items,
\* its scores never increase, and items of equal score keep the order they
\* had in the normalized sequence.
C8_StableDescendingSort ==
    pc \in {"output", "done"} =>
        /\ Len(sorted_problems) = Len(scored_problems)
        /\ \A x \in Range(scored_problems) \cup Range(sorted_problems) :
              Count(sorted_problems, x) = Count(scored_problems, x)
        /\ [i \in DOMAIN scored_problems |-> Unscored(scored_problems[i])]
              = process_problems(raw_problems_list.val).processed
        /\ \A i \in 1..(Len(sorted_problems) - 1) :
              sorted_problems[i].trueDifficultyScore
                 >= sorted_problems[i + 1].trueDifficultyScore
        /\ \A x \in Range(scored_problems) :
              WithScore(sorted_problems, x.trueDifficultyScore)
                 = WithScore(scored_problems, x.trueDifficultyScore)

\* C8 witness: two different items of equal score, and an item that the sort
\* has moved.
C8_Witness ==
    /\ pc = "done"
    /\ \E i, j \in DOMAIN sorted_problems :
          /\ i < j
          /\ sorted_problems[i] # sorted_problems[j]
          /\ sorted_problems[i].trueDifficultyScore = sorted_problems[j].trueDifficultyScore
    /\ sorted_problems # scored_problems

\* a raw record with nothing wrong in it
WellFormed(r) ==
    /\ Eligible(r)
    /\ r.stat.total_acs.k = "int"
    /\ r.stat.total_submitted.k = "int"

\* C9: a malformed record never aborts the batch; every well-formed record
\* of the list is in the normalized output, and in the ranked result.
C9_BadRecordSkipped ==
    "normalize" \in steps =>
        /\ abortCause # "record"
        /\ \A k \in DOMAIN raw_problems_list.val :
              WellFormed(raw_problems_list.val[k]) =>
                  /\ \E i \in DOMAIN problems :
                        problems[i].slug
                           = raw_problems_list.val[k].stat.question__title_slug
                  /\ pc = "done" =>
                        \E i \in DOMAIN sorted_problems :
                           sorted_problems[i].slug
                              = raw_problems_list.val[k].stat.question__title_slug

\* a and b agree in every field but f (and the score)
SameBut(a, b, f) ==
    /\ a[f] # b[f]
    /\ Unscored([a EXCEPT ![f] = b[f]]) = Unscored(b)

\* C10: with the corpus maxima and the other fields fixed, a lower
\* acceptanceRate never gives a lower score, a higher totalSubmissions never
\* gives a higher score, and a higher id never gives a lower score.
C10_ScoreMonotone ==
    \A i, j \in DOMAIN scored_problems :
        LET a == scored_problems[i]
            b == scored_problems[j]
        IN /\ (SameBut(a, b, "acceptanceRate") /\ b.acceptanceRate < a.acceptanceRate)
                 => b.trueDifficultyScore >= a.trueDifficultyScore
           /\ (SameBut(a, b, "totalSubmissions")
                   /\ b.totalSubmissions > a.totalSubmissions)
                 => b.trueDifficultyScore <= a.trueDifficultyScore
           /\ (SameBut(a, b, "id") /\ b.id > a.id)
                 => b.trueDifficultyScore >= a.trueDifficultyScore

\* C10 witness: two scored items that differ in totalSubmissions alone, the
\* one with more submissions scoring strictly lower.
C10_Witness ==
    /\ Len(scored_problems) = 2
    /\ SameBut(scored_problems[1], scored_problems[2], "totalSubmissions")
    /\ scored_problems[2].totalSubmissions > scored_problems[1].totalSubmissions
    /\ scored_problems[2].trueDifficultyScore < scored_problems[1].trueDifficultyScore

====
